---- MODULE Spec2Model ----
\* mein-idaas: the authentication and token-lifecycle engine.
\* The refresh-token rotation state machine (AuthService.Refresh over the
\* RefreshTokenRepository), Login, the in-memory OTP store and the janitor.
\* Time is a discrete clock; durations are scaled to clock ticks.
EXTENDS Integers, FiniteSets, Sequences, TLC

VARIABLES
    now,            \* wall clock (time.Now())
    users,          \* users table: id -> row (with its roles)
    credentials,    \* credentials table: user id -> encoded password hash
    otpStore,       \* memVerificationRepo.data: key -> otpItem
    refreshStore,   \* refresh_tokens table: id -> row
    nextId,         \* source of fresh uuid.New() values for refresh ids
    inserted,       \* history: every refresh row ever created, with the row it rotated
    issued,         \* refresh JWTs handed to clients
    pc,             \* position of each in-flight Refresh call
    loc,            \* local variables of each in-flight Refresh call
    resp,           \* last response of each Refresh call
    calls,          \* number of Refresh calls started
    revokes,        \* number of revocations performed
    loginResp,      \* response of the last Login call
    outbox,         \* messages handed to the EmailService (Notifier)
    apc,            \* position of each in-flight account request
    aloc,           \* local variables of each in-flight account request
    aresp,          \* last response of each account request
    acalls,         \* number of account requests started
    accepted,       \* history: the requests that accepted each key's current OTP entry
    codec           \* inputs and results of the hasher / signer round trips

\* Variables of the account requests (register, verify, password change).
acctVars == <<apc, aloc, aresp, acalls>>

\* Variables of the refresh-token side.
tokenVars == <<refreshStore, nextId, inserted, issued, pc, loc, resp, calls,
               revokes>>

vars == <<now, users, credentials, otpStore, refreshStore, nextId, inserted,
          issued, pc, loc, resp, calls, revokes, loginResp, outbox, apc, aloc,
          aresp, acalls, accepted, codec>>

-----------------------------------------------------------------------------
\* Bounds of the model.
MaxTime == 3
MaxRecords == 3
MaxCalls == 3
MaxRevokes == 1
MaxOps == 3

\* Durations, in clock ticks.
RefreshTTL == 2
GracePeriod == 1
OtpTTL == 1
AccessTTL == 1

\* Argon2 defaults.
argon2Time == 3
argon2Memory == 65536
argon2Threads == 4
argon2KeyLength == 32
DecodedKeyLength == 32

NULL == 0 - 1

UserIds == {"u1", "u2"}
AllUserIds == UserIds \cup {"u3"}
Procs == {"p1", "p2"}
Passwords == {"pw1", "pw2"}
Codes == {"111111", "222222"}
RIds == 1..MaxRecords

EmailOf(u) ==
    IF u = "u1" THEN "ada@x.test"
    ELSE IF u = "u2" THEN "bob@x.test" ELSE "cy@x.test"
Emails == {"ada@x.test", "bob@x.test", "ghost@x.test"}

-----------------------------------------------------------------------------
\* PasswordHasher

\* argon2.IDKey: an injective abstraction of the derived key.
IDKey(password, salt, time, memory, threads, keyLen) ==
    <<password, salt, time, memory, threads, keyLen>>

\* The package-level settings after InitArgon2Params with an empty environment.
Argon2Defaults ==
    [time |-> argon2Time, memory |-> argon2Memory, threads |-> argon2Threads,
     keyLength |-> argon2KeyLength]

\* Settings InitArgon2Params can leave behind: each ARGON2_* variable is taken
\* as given, here the defaults with a raised time cost and a doubled key length.
Argon2Settings ==
    [time : {argon2Time, argon2Time + 1}, memory : {argon2Memory},
     threads : {argon2Threads},
     keyLength : {argon2KeyLength, 2 * argon2KeyLength}]

\* encodeArgon2Hash: $argon2id$v=19$m=..,t=..,p=..$salt$hash, written from the
\* settings g in force; the key length is not part of the encoding.
encodeArgon2Hash(g, salt, hash) ==
    [alg |-> "argon2id", m |-> g.memory, t |-> g.time,
     p |-> g.threads, salt |-> salt, hash |-> hash]

\* HashPassword under the settings g in force when it runs.
HashPassword(g, password, salt) ==
    encodeArgon2Hash(g, salt, IDKey(password, salt, g.time, g.memory,
                                    g.threads, g.keyLength))

\* Faulty variant: every password is accepted.
ComparePassword_Always(hashed, plain) == TRUE

\* ComparePassword rehashes with the parameters stored in the hash.
ComparePassword(hashed, plain) ==
    hashed.hash = IDKey(plain, hashed.salt, hashed.t, hashed.m, hashed.p,
                        DecodedKeyLength)

-----------------------------------------------------------------------------
\* TokenSigner

LoginAudience == {"self-hosted-idaas"}
GraceAudience == {"my-game-server", "smoking-app"}

\* JWT_ISSUER, unset.
issuer == "mein-idaas"

\* time.ParseDuration on the strings a deployment writes: "15m" and "30m" are
\* one and two ticks, anything else is an error with a zero duration.
ParseDuration(s) ==
    IF s = "15m" THEN [ok |-> TRUE, d |-> AccessTTL]
    ELSE IF s = "30m" THEN [ok |-> TRUE, d |-> 2 * AccessTTL]
    ELSE [ok |-> FALSE, d |-> 0]

\* parseTokenTTL: the default for an unset or unparseable value.
parseTokenTTL(value, defaultDuration) ==
    IF value = "" THEN defaultDuration
    ELSE IF ~ParseDuration(value).ok THEN defaultDuration
    ELSE ParseDuration(value).d

\* The package variable accessTTL with JWT_ACCESS_TTL unset.
accessTTL == parseTokenTTL("", AccessTTL)

\* The access claims of GenerateTokens and of GenerateAccessTokenOnly, signed
\* at time t with the lifetime ttl held by the package variable accessTTL.
AccessClaims(ttl, userID, roles, aud, t) ==
    [sub |-> userID, roles |-> roles, iss |-> issuer, aud |-> aud,
     iat |-> t, exp |-> t + ttl]

\* SignRefreshToken: claims of a refresh JWT for an existing refresh id.
SignRefreshToken(refreshID, userID, t) ==
    [sub |-> userID, jti |-> refreshID, iat |-> t, exp |-> t + RefreshTTL]

\* Faulty variant: the access token carries the roles given at registration.
GenerateTokens_StaleRoles(userID, roles, refreshID, t) ==
    [AccessToken  |-> AccessClaims(accessTTL, userID, {"user"}, LoginAudience, t),
     RefreshToken |-> SignRefreshToken(refreshID, userID, t),
     RefreshID    |-> refreshID]

\* GenerateTokens: an access token and a refresh token with a fresh id.
GenerateTokens(userID, roles, refreshID, t) ==
    [AccessToken  |-> AccessClaims(accessTTL, userID, roles, LoginAudience, t),
     RefreshToken |-> SignRefreshToken(refreshID, userID, t),
     RefreshID    |-> refreshID]

GenerateAccessTokenOnly(userID, roles, t) ==
    AccessClaims(accessTTL, userID, roles, GraceAudience, t)

\* Faulty variant: the record id is read from the wrong claim.
ParseRefreshToken_WrongClaim(tok, t) ==
    IF tok.exp < t
    THEN [ok |-> FALSE, userID |-> "", refreshID |-> NULL]
    ELSE [ok |-> TRUE, userID |-> tok.sub, refreshID |-> tok.iat]

\* Faulty variant: exp is not validated.
ParseRefreshToken_NoExpiry(tok, t) ==
    IF tok.sub = "" \/ tok.jti = NULL
    THEN [ok |-> FALSE, userID |-> "", refreshID |-> NULL]
    ELSE [ok |-> TRUE, userID |-> tok.sub, refreshID |-> tok.jti]

\* ParseRefreshToken: signature and exp are validated, an empty sub or jti is
\* refused, then (sub, jti) are returned. uuid.String and uuid.Parse are
\* inverse on uuid values, so sub and jti carry the ids themselves.
ParseRefreshToken(tok, t) ==
    IF tok.exp < t \/ tok.sub = "" \/ tok.jti = NULL
    THEN [ok |-> FALSE, userID |-> "", refreshID |-> NULL]
    ELSE [ok |-> TRUE, userID |-> tok.sub, refreshID |-> tok.jti]

\* ParseAccessToken: jwt.ParseWithClaims into dto.AuthClaims checks the RS256
\* signature and exp; a claim the token does not carry is left at its zero
\* value. Every token of the model is signed with the service's key.
ParseAccessToken(tok, t) ==
    IF tok.exp < t
    THEN [ok |-> FALSE, Subject |-> "", Roles |-> {}]
    ELSE [ok |-> TRUE, Subject |-> tok.sub,
          Roles |-> IF "roles" \in DOMAIN tok THEN tok.roles ELSE {}]

\* ExtractUserIDFromToken: the subject of the bearer token.
ExtractUserIDFromToken(tok, t) ==
    LET claims == ParseAccessToken(tok, t) IN
    IF ~claims.ok \/ claims.Subject = ""
    THEN [ok |-> FALSE, userID |-> ""]
    ELSE [ok |-> TRUE, userID |-> claims.Subject]

HashToken(tok) == <<"sha256", tok>>

NoToken == [sub |-> "", jti |-> NULL, iat |-> NULL, exp |-> NULL]
NoAccess ==
    [sub |-> "", roles |-> {}, iss |-> "", aud |-> {}, iat |-> NULL, exp |-> NULL]

-----------------------------------------------------------------------------
\* RefreshStore (pgRefreshTokenRepo)

\* model.RefreshToken as built by Login and Refresh, stamped by Create.
NewRefreshToken(id, userID, hash, t) ==
    [id |-> id, user_id |-> userID, token_hash |-> hash,
     expires_at |-> t + RefreshTTL, replaced_at |-> NULL,
     replaced_by |-> NULL, revoked_at |-> NULL, created_at |-> t]

Exists(store, id) == id \in DOMAIN store

\* Faulty variant: the insert drops the other rows of the same user.
Create_SingleSession(store, rt) ==
    [r \in {x \in DOMAIN store : store[x].user_id # rt.user_id} \cup {rt.id} |->
        IF r = rt.id THEN rt ELSE store[r]]

\* db.Create: inserts the row.
Create(store, rt) ==
    [r \in DOMAIN store \cup {rt.id} |-> IF r = rt.id THEN rt ELSE store[r]]

\* db.Save: writes every column of the row; inserts the row when it is absent.
Update(store, rt) ==
    [r \in DOMAIN store \cup {rt.id} |-> IF r = rt.id THEN rt ELSE store[r]]

Delete(store, id) ==
    [r \in DOMAIN store \ {id} |-> store[r]]

\* Faulty variant: rows that expire at this very moment are removed too.
DeleteExpiredRows_Inclusive(store, t) ==
    [r \in {x \in DOMAIN store : ~(store[x].expires_at <= t)} |-> store[r]]

DeleteExpiredRows(store, t) ==
    [r \in {x \in DOMAIN store : ~(store[x].expires_at < t)} |-> store[r]]

RevokeRows(store, ids, t) ==
    [r \in DOMAIN store |->
        IF r \in ids THEN [store[r] EXCEPT !.revoked_at = t] ELSE store[r]]

\* IsValid (model.RefreshToken)
IsValid(rt, t) == t < rt.expires_at /\ rt.revoked_at = NULL

-----------------------------------------------------------------------------
\* OTPStore (memVerificationRepo)

\* Faulty variant: an existing entry keeps its expiry when it is overwritten.
Save_KeepExpiry(store, key, code, duration, t) ==
    [k \in DOMAIN store \cup {key} |->
        IF k = key
        THEN [code |-> code,
              expiresAt |-> IF key \in DOMAIN store THEN store[key].expiresAt
                            ELSE t + duration]
        ELSE store[k]]

\* sync.Map.Store of a new otpItem under the key.
Save(store, key, code, duration, t) ==
    [k \in DOMAIN store \cup {key} |->
        IF k = key THEN [code |-> code, expiresAt |-> t + duration] ELSE store[k]]

NoItem == [code |-> "", expiresAt |-> NULL]

\* sync.Map Load
Load(store, key) == IF key \in DOMAIN store THEN store[key] ELSE NoItem

\* Faulty variant: no entry is ever taken as expired.
Expired_Never(item, t) == FALSE

\* Faulty variant: every entry is taken as expired.
Expired_Always(item, t) == TRUE

\* time.Now().After(item.expiresAt)
Expired(item, t) == t > item.expiresAt

\* Faulty variant: the entry is left in the store.
DeleteKey_Keep(store, key) == store

\* memVerificationRepo.Delete
DeleteKey(store, key) == [k \in DOMAIN store \ {key} |-> store[k]]

\* Faulty variant: the code is generated but never saved.
SendVerificationCode_NoSave(store, userID, code, t) == store

\* SendVerificationCode: store the code; the e-mail is sent off the request path.
SendVerificationCode(store, userID, code, t) == Save(store, userID, code, OtpTTL, t)

-----------------------------------------------------------------------------
\* IdentityStore

\* Faulty variant: the e-mail filter is lost, any user row matches.
GetByEmail_AnyRow(email) == DOMAIN users

\* pgUserRepo.GetByEmail: the rows whose email column equals the argument.
GetByEmail(email) == {u \in DOMAIN users : users[u].email = email}

\* model.User as inserted by Register (is_email_verified defaults to false).
NewUser(email, roleCodes) ==
    [email |-> email, verified |-> FALSE, roles |-> roleCodes]

NoUser == [email |-> "", verified |-> FALSE, roles |-> {}]

\* model.Credential; the active column defaults to true. The ORM's
\* CreatedAt / UpdatedAt bookkeeping columns are left out.
NewCredential(id, userID, type, value) ==
    [id |-> id, user_id |-> userID, type |-> type, value |-> value,
     active |-> TRUE]

NoCred == [id |-> NULL]

\* user.Credentials filtered as Login and ChangePassword do: c.Type == "password".
PasswordCredentials(creds, userID) ==
    {c \in DOMAIN creds : creds[c].user_id = userID /\ creds[c].type = "password"}

\* uuid.New() for a credential row.
FreshCredentialID(creds, taken) ==
    CHOOSE c \in 1..(Cardinality(DOMAIN creds) + Cardinality(taken) + 1) :
        c \notin DOMAIN creds /\ c \notin taken

\* Faulty variant: the credential is saved under a new primary key.
SaveCredential_Insert(creds, cred) ==
    LET id == FreshCredentialID(creds, {}) IN
    [c \in DOMAIN creds \cup {id} |->
        IF c = id THEN [cred EXCEPT !.id = id] ELSE creds[c]]

\* Faulty variant: the new value is written to every credential row.
SaveCredential_AllRows(creds, cred) ==
    [c \in DOMAIN creds \cup {cred.id} |->
        IF c = cred.id THEN cred ELSE [creds[c] EXCEPT !.value = cred.value]]

\* pgCredentialRepo.Update (db.Save): writes the row with cred's primary key.
SaveCredential(creds, cred) ==
    [c \in DOMAIN creds \cup {cred.id} |-> IF c = cred.id THEN cred ELSE creds[c]]

\* Faulty variant: the update is dropped.
SaveUser_Dropped(table, userID, user) == table

\* Faulty variant: the save flips the stored verification flag.
SaveUser_Toggle(table, userID, user) ==
    [u \in DOMAIN table \cup {userID} |->
        IF u = userID /\ userID \in DOMAIN table
        THEN [user EXCEPT !.verified = ~table[userID].verified]
        ELSE IF u = userID THEN user ELSE table[u]]

\* pgUserRepo.Update (db.Save) of the users row.
SaveUser(table, userID, user) ==
    [u \in DOMAIN table \cup {userID} |-> IF u = userID THEN user ELSE table[u]]

-----------------------------------------------------------------------------
\* Notifier (EmailService)

\* Faulty variant: the mail is sent inline, before the caller returns.
Message_Sync(kind, email, code) ==
    [kind |-> kind, to |-> email, code |-> code, state |-> "sent"]

\* A mail handed to the background goroutine; it has not been sent yet.
Message(kind, email, code) ==
    [kind |-> kind, to |-> email, code |-> code, state |-> "queued"]

-----------------------------------------------------------------------------
\* Responses

Response(status, kind, parent, child, access, refresh) ==
    [status |-> status, kind |-> kind, parent |-> parent, child |-> child,
     access |-> access, refresh |-> refresh]

Failure(status, parent) == Response(status, "none", parent, NULL, NoAccess, NoToken)

NoResponse == Failure("none", NULL)

NoRow == [id |-> NULL]
NoPair == [AccessToken |-> NoAccess, RefreshToken |-> NoToken, RefreshID |-> NULL]

NoLocal == [token |-> NoToken, existing |-> NoRow, pair |-> NoPair]

\* History entry of a created refresh row: parent is the row it rotated
\* (NULL for a login).
Inserted(hist, rt, parent) ==
    [r \in DOMAIN hist \cup {rt.id} |->
        IF r = rt.id
        THEN [parent |-> parent, user_id |-> rt.user_id,
              created_at |-> rt.created_at, expires_at |-> rt.expires_at]
        ELSE hist[r]]

-----------------------------------------------------------------------------
\* Initial states

PasswordOf(u) == IF u = "u1" THEN "pw1" ELSE "pw2"

\* Request-local state of an account request; tx* are the rows written
\* inside the request's open transaction.
NoAcct ==
    [op |-> "none", email |-> "", userID |-> "", code |-> "", old |-> "",
     new |-> "", fault |-> "none", txUser |-> NoUser, txCred |-> NoCred,
     user |-> NoUser, cred |-> NoCred]

\* What an account request answered: the service's error (or "ok"), the
\* status code and the error / message body written by the controller.
AcctResponse(op, userID, status, http, body) ==
    [op |-> op, userID |-> userID, status |-> status, http |-> http, body |-> body]

NoAcctResponse == AcctResponse("none", "", "none", 0, "")

\* State of one hasher or signer round trip: what went in, the encoded
\* value, and what came back.
NoCodec ==
    [kind |-> "none", path |-> "none", settings |-> Argon2Defaults,
     password |-> "", plain |-> "", encoded |-> <<>>,
     userID |-> "", refreshID |-> NULL, token |-> NoToken,
     parsed |-> [ok |-> FALSE, userID |-> "", refreshID |-> NULL],
     at |-> NULL, result |-> "none"]

\* The password credential of the n-th registered user.
InitialCredentials ==
    [c \in 1..2 |->
        LET u == IF c = 1 THEN "u1" ELSE "u2" IN
        NewCredential(c, u, "password", HashPassword(Argon2Defaults, PasswordOf(u), "salt"))]

InitCommon ==
    /\ now = 0
    /\ outbox = {}
    /\ apc = [p \in Procs |-> "idle"]
    /\ aloc = [p \in Procs |-> NoAcct]
    /\ aresp = [p \in Procs |-> NoAcctResponse]
    /\ acalls = 0
    /\ accepted = [u \in AllUserIds |-> {}]
    /\ codec = NoCodec
    /\ otpStore = <<>>
    /\ refreshStore = <<>>
    /\ nextId = 1
    /\ inserted = <<>>
    /\ issued = {}
    /\ pc = [p \in Procs |-> "idle"]
    /\ loc = [p \in Procs |-> NoLocal]
    /\ resp = [p \in Procs |-> NoResponse]
    /\ calls = 0
    /\ revokes = 0
    /\ loginResp = NoResponse

\* Two registered users whose e-mail addresses are verified.
Init ==
    /\ InitCommon
    /\ credentials = InitialCredentials
    /\ users = [u \in UserIds |->
                  [email |-> EmailOf(u), verified |-> TRUE, roles |-> {"user"}]]

-----------------------------------------------------------------------------
\* Clock and janitor

Tick ==
    /\ now < MaxTime
    /\ now' = now + 1
    /\ UNCHANGED <<users, credentials, otpStore, refreshStore, nextId, inserted,
                   issued, pc, loc, resp, calls, revokes, loginResp,
                   outbox, accepted, acctVars, codec>>

DeleteExpired ==
    /\ refreshStore' = DeleteExpiredRows(refreshStore, now)
    /\ refreshStore' # refreshStore
    /\ UNCHANGED <<now, users, credentials, otpStore, nextId, inserted,
                   issued, pc, loc, resp, calls, revokes, loginResp,
                   outbox, accepted, acctVars, codec>>

-----------------------------------------------------------------------------
\* AuthService.Login

Login(email, password, code) ==
    LET found == GetByEmail(email) IN
    /\ IF found = {}
       THEN /\ loginResp' = Failure("invalid credentials", NULL)
            /\ UNCHANGED <<otpStore, outbox, accepted, refreshStore, nextId, inserted, issued>>
       ELSE LET u == CHOOSE x \in found : TRUE
                user == users[u]
                pw == PasswordCredentials(credentials, u)
                pwCred == IF pw = {} THEN NoCred
                          ELSE credentials[CHOOSE c \in pw : \A d \in pw : c <= d]
            IN
            IF pw = {}
            THEN /\ loginResp' = Failure("invalid credentials", NULL)
                 /\ UNCHANGED <<otpStore, outbox, accepted, refreshStore, nextId, inserted, issued>>
            ELSE IF ~ComparePassword(pwCred.value, password)
            THEN /\ loginResp' = Failure("invalid credentials", NULL)
                 /\ UNCHANGED <<otpStore, outbox, accepted, refreshStore, nextId, inserted, issued>>
            ELSE IF ~user.verified
            THEN /\ otpStore' = SendVerificationCode(otpStore, u, code, now)
                 /\ outbox' = outbox \cup {Message("EmailVerification", user.email, code)}
                 /\ accepted' = [accepted EXCEPT ![u] = {}]
                 /\ loginResp' = Failure("email not verified", NULL)
                 /\ UNCHANGED <<refreshStore, nextId, inserted, issued>>
            ELSE LET pair == GenerateTokens(u, user.roles, nextId, now)
                     rt == NewRefreshToken(pair.RefreshID, u,
                                           HashToken(pair.RefreshToken), now)
                 IN
                 /\ nextId <= MaxRecords
                 /\ nextId' = nextId + 1
                 /\ refreshStore' = Create(refreshStore, rt)
                 /\ inserted' = Inserted(inserted, rt, NULL)
                 /\ issued' = issued \cup {pair.RefreshToken}
                 /\ loginResp' = Response("ok", "login", NULL, rt.id,
                                          pair.AccessToken, pair.RefreshToken)
                 /\ UNCHANGED <<otpStore, outbox, accepted>>
    /\ UNCHANGED <<now, users, credentials, pc, loc, resp, calls, revokes,
                   acctVars, codec>>

\* AuthController.Login: the status code and error body for a service result.
LoginController(r) ==
    IF r.status = "ok" THEN [code |-> 200, error |-> ""]
    ELSE IF r.status = "invalid credentials"
    THEN [code |-> 401, error |-> "invalid credentials"]
    ELSE IF r.status = "email not verified"
    THEN [code |-> 403, error |-> "email not verified"]
    ELSE [code |-> 500, error |-> r.status]

-----------------------------------------------------------------------------
\* AuthService.Refresh, one action per store round trip

\* Faulty variant: revocation is looked at only for rows not yet replaced.
Revoked_OnlyFresh(existing) ==
    existing.revoked_at # NULL /\ existing.replaced_at = NULL

\* existing.RevokedAt != nil
Revoked(existing) == existing.revoked_at # NULL

\* Faulty variant: the comparison with the grace period is inverted.
ReuseDetected_Inverted(replacedAt, t) == t - replacedAt < GracePeriod

\* time.Since(*existing.ReplacedAt) > gracePeriod
ReuseDetected(replacedAt, t) == t - replacedAt > GracePeriod

\* Faulty variant: the replacement stamp is set without the link to the child.
MarkReplaced_NoLink(existing, t, childID) ==
    [existing EXCEPT !.replaced_at = t]

\* existing.ReplacedAt = &now; existing.ReplacedByTokenID = &pair.RefreshID
MarkReplaced(existing, t, childID) ==
    [existing EXCEPT !.replaced_at = t, !.replaced_by = childID]

\* Faulty variant: the presented parent is re-signed instead of its child.
ResignChild_Parent(existing, childToken, t) ==
    SignRefreshToken(existing.id, existing.user_id, t)

\* Case B step 4: re-sign the existing child token id.
ResignChild(existing, childToken, t) ==
    SignRefreshToken(childToken.id, childToken.user_id, t)

Finish(p, r) ==
    /\ pc' = [pc EXCEPT ![p] = "done"]
    /\ resp' = [resp EXCEPT ![p] = r]
    /\ loc' = [loc EXCEPT ![p] = NoLocal]

\* Steps 1-4: parse the token, load the row, security checks, case split.
RefreshBegin(p, tok) ==
    LET parsed == ParseRefreshToken(tok, now) IN
    /\ pc[p] \in {"idle", "done"}
    /\ calls < MaxCalls
    /\ calls' = calls + 1
    /\ IF ~parsed.ok
       THEN Finish(p, Failure("invalid refresh token", NULL))
       ELSE IF ~Exists(refreshStore, parsed.refreshID)
       THEN Finish(p, Failure("invalid or unknown refresh token", parsed.refreshID))
       ELSE LET existing == refreshStore[parsed.refreshID] IN
            IF existing.user_id # parsed.userID
            THEN Finish(p, Failure("user mismatch", existing.id))
            ELSE IF Revoked(existing)
            THEN Finish(p, Failure("token was revoked", existing.id))
            ELSE IF existing.replaced_at # NULL
            THEN IF ReuseDetected(existing.replaced_at, now)
                 THEN Finish(p, Failure("refresh token reuse detected", existing.id))
                 ELSE IF existing.replaced_by = NULL
                 THEN Finish(p, Failure("system inconsistency", existing.id))
                 ELSE /\ pc' = [pc EXCEPT ![p] = "grace"]
                      /\ loc' = [loc EXCEPT ![p] =
                                   [NoLocal EXCEPT !.token = tok, !.existing = existing]]
                      /\ resp' = [resp EXCEPT ![p] = NoResponse]
            ELSE /\ pc' = [pc EXCEPT ![p] = "rotate"]
                 /\ loc' = [loc EXCEPT ![p] =
                              [NoLocal EXCEPT !.token = tok, !.existing = existing]]
                 /\ resp' = [resp EXCEPT ![p] = NoResponse]
    /\ UNCHANGED <<now, users, credentials, otpStore, refreshStore, nextId,
                   inserted, issued, revokes, loginResp,
                   outbox, accepted, acctVars, codec>>

\* Case B (grace period): load the child, mint an access token, re-sign.
RefreshGrace(p) ==
    LET existing == loc[p].existing IN
    /\ pc[p] = "grace"
    /\ IF ~Exists(refreshStore, existing.replaced_by)
       THEN /\ Finish(p, Failure("child token not found", existing.id))
            /\ UNCHANGED issued
       ELSE LET childToken == refreshStore[existing.replaced_by]
                user == users[existing.user_id]
                refreshTokenString == ResignChild(existing, childToken, now)
            IN
            /\ Finish(p, Response("ok", "G", existing.id, childToken.id,
                                  GenerateAccessTokenOnly(existing.user_id, user.roles, now),
                                  refreshTokenString))
            /\ issued' = issued \cup {refreshTokenString}
    /\ UNCHANGED <<now, users, credentials, otpStore, refreshStore, nextId,
                   inserted, calls, revokes, loginResp,
                   outbox, accepted, acctVars, codec>>

\* Normal rotation: load the user, generate the pair, insert the new row.
RefreshCreate(p) ==
    LET existing == loc[p].existing
        user == users[existing.user_id]
        pair == GenerateTokens(existing.user_id, user.roles, nextId, now)
        newRT == NewRefreshToken(pair.RefreshID, existing.user_id,
                                 HashToken(pair.RefreshToken), now)
    IN
    /\ pc[p] = "rotate"
    /\ nextId <= MaxRecords
    /\ nextId' = nextId + 1
    /\ refreshStore' = Create(refreshStore, newRT)
    /\ inserted' = Inserted(inserted, newRT, existing.id)
    /\ pc' = [pc EXCEPT ![p] = "update"]
    /\ loc' = [loc EXCEPT ![p].pair = pair]
    /\ UNCHANGED <<now, users, credentials, otpStore, issued, resp, calls, revokes, loginResp,
                   outbox, accepted, acctVars, codec>>

\* Mark the old row as replaced; the update succeeds.
RefreshUpdate(p) ==
    LET existing == MarkReplaced(loc[p].existing, now, loc[p].pair.RefreshID)
        pair == loc[p].pair
    IN
    /\ pc[p] = "update"
    /\ refreshStore' = Update(refreshStore, existing)
    /\ Finish(p, Response("ok", "N", existing.id, pair.RefreshID,
                          pair.AccessToken, pair.RefreshToken))
    /\ issued' = issued \cup {pair.RefreshToken}
    /\ UNCHANGED <<now, users, credentials, otpStore, nextId, inserted, calls, revokes, loginResp,
                   outbox, accepted, acctVars, codec>>

\* The update returns an error: the call goes on to delete the new row.
RefreshUpdateFails(p) ==
    /\ pc[p] = "update"
    /\ pc' = [pc EXCEPT ![p] = "compensate"]
    /\ UNCHANGED <<now, users, credentials, otpStore, refreshStore, nextId,
                   inserted, issued, loc, resp, calls, revokes, loginResp,
                   outbox, accepted, acctVars, codec>>

\* _ = s.refreshRepo.Delete(newRT.ID); return "failed to rotate token"
RefreshCompensate(p) ==
    /\ pc[p] = "compensate"
    /\ refreshStore' = Delete(refreshStore, loc[p].pair.RefreshID)
    /\ Finish(p, Failure("failed to rotate token", loc[p].existing.id))
    /\ UNCHANGED <<now, users, credentials, otpStore, nextId, inserted, issued,
                   calls, revokes, loginResp,
                   outbox, accepted, acctVars, codec>>

\* AuthController.Refresh: the status code and error body for a service result.
RefreshController(r) ==
    IF r.status = "ok" THEN [code |-> 200, error |-> ""]
    ELSE IF r.status \in {"invalid or unknown refresh token",
                          "refresh token expired or revoked"}
    THEN [code |-> 401, error |-> r.status]
    ELSE [code |-> 500, error |-> r.status]

-----------------------------------------------------------------------------
\* Revocation (RefreshTokenRepository)

RevokeByID(id) ==
    /\ Exists(refreshStore, id)
    /\ refreshStore' = RevokeRows(refreshStore, {id}, now)
    /\ refreshStore' # refreshStore
    /\ revokes < MaxRevokes
    /\ revokes' = revokes + 1
    /\ UNCHANGED <<now, users, credentials, otpStore, nextId, inserted, issued,
                   pc, loc, resp, calls, loginResp,
                   outbox, accepted, acctVars, codec>>

RevokeAllForUser(userID) ==
    /\ refreshStore' = RevokeRows(refreshStore,
                           {r \in DOMAIN refreshStore : refreshStore[r].user_id = userID},
                           now)
    /\ refreshStore' # refreshStore
    /\ revokes < MaxRevokes
    /\ revokes' = revokes + 1
    /\ UNCHANGED <<now, users, credentials, otpStore, nextId, inserted, issued,
                   pc, loc, resp, calls, loginResp,
                   outbox, accepted, acctVars, codec>>

-----------------------------------------------------------------------------
\* The rotation state machine with its environment.

Refresh ==
    \/ \E p \in Procs, tok \in issued : RefreshBegin(p, tok)
    \/ \E p \in Procs : RefreshGrace(p)
    \/ \E p \in Procs : RefreshCreate(p)
    \/ \E p \in Procs : RefreshUpdate(p)
    \/ \E p \in Procs : RefreshUpdateFails(p)
    \/ \E p \in Procs : RefreshCompensate(p)

Next ==
    \/ Tick
    \/ DeleteExpired
    \/ \E e \in Emails, pw \in Passwords : Login(e, pw, "111111")
    \/ Refresh

Spec == Init /\ [][Next]_vars

\* The rotation state machine of one user's sessions, with revocation.
NextRevoke ==
    \/ Tick
    \/ DeleteExpired
    \/ \E pw \in Passwords : Login("ada@x.test", pw, "111111")
    \/ Refresh
    \/ \E id \in RIds : RevokeByID(id)
    \/ \E u \in UserIds : RevokeAllForUser(u)

SpecRevoke == Init /\ [][NextRevoke]_vars

-----------------------------------------------------------------------------
\* Login with the OTP store: bob has registered but not verified his e-mail.

\* cy signs in with another provider: the only credential is of type google.
InitLogin ==
    /\ InitCommon
    /\ credentials = [c \in 1..3 |->
                        IF c = 3 THEN NewCredential(3, "u3", "google", "cy-google-id")
                        ELSE InitialCredentials[c]]
    /\ users = [u \in UserIds \cup {"u3"} |->
                  [email |-> EmailOf(u), verified |-> (u # "u2"), roles |-> {"user"}]]

LoginEmails == Emails \cup {"cy@x.test"}

NextLogin ==
    \/ Tick
    \/ \E e \in LoginEmails, pw \in Passwords, c \in Codes : Login(e, pw, c)

SpecLogin == InitLogin /\ [][NextLogin]_vars

-----------------------------------------------------------------------------
\* Account requests: register, verify e-mail, change password, send codes.
\* One action per store round trip of a request.

AcctStart(p) ==
    /\ apc[p] \in {"idle", "done"}
    /\ acalls < MaxOps
    /\ acalls' = acalls + 1

AcctFinish(p, r) ==
    /\ apc' = [apc EXCEPT ![p] = "done"]
    /\ aresp' = [aresp EXCEPT ![p] = r]
    /\ aloc' = [aloc EXCEPT ![p] = NoAcct]

AcctGoto(p, label, local) ==
    /\ apc' = [apc EXCEPT ![p] = label]
    /\ aloc' = [aloc EXCEPT ![p] = local]
    /\ aresp' = [aresp EXCEPT ![p] = NoAcctResponse]

\* AuthController.ChangePassword: status code for a service error.
ChangePasswordFailure(userID, err) ==
    AcctResponse("change", userID, err,
                 IF err = "invalid old password" THEN 401
                 ELSE IF err \in {"invalid verification code", "code expired"} THEN 400
                 ELSE 500,
                 err)

\* What the caller of VerifyCode answers when it returns an error.
VerifyCodeFailure(op, userID, err) ==
    IF op = "verify"
    THEN AcctResponse(op, userID, err, 401, "invalid or expired verification code")
    ELSE ChangePasswordFailure(userID, err)

\* VerificationController.VerifyEmail, step 3: resolve the user by e-mail.
VerifyEmailBegin(p, email, code) ==
    LET found == GetByEmail(email) IN
    /\ AcctStart(p)
    /\ IF found = {}
       THEN AcctFinish(p, AcctResponse("verify", "", "user not found", 401,
                                       "user not found"))
       ELSE AcctGoto(p, "get", [NoAcct EXCEPT !.op = "verify", !.email = email,
                                              !.userID = CHOOSE u \in found : TRUE,
                                              !.code = code])
    /\ UNCHANGED <<now, users, credentials, otpStore, outbox, accepted,
                   tokenVars, loginResp, codec>>

\* AuthController.ChangePassword, steps 1-5: the user id comes from the
\* bearer token; equal old and new passwords are rejected by the controller.
ChangePasswordBegin(p, userID, old, new, code) ==
    /\ AcctStart(p)
    /\ userID \in DOMAIN users
    /\ IF old = new
       THEN AcctFinish(p, AcctResponse("change", userID, "same password", 400,
                           "new password must be different from old password"))
       ELSE AcctGoto(p, "get", [NoAcct EXCEPT !.op = "change", !.userID = userID,
                                              !.code = code, !.old = old,
                                              !.new = new])
    /\ UNCHANGED <<now, users, credentials, otpStore, outbox, accepted,
                   tokenVars, loginResp, codec>>

\* VerifyCode, steps 1-2: repo.Get loads the entry; the code is compared.
VerifyCodeGet(p) ==
    LET l == aloc[p]
        item == Load(otpStore, l.userID)
    IN
    /\ apc[p] = "get"
    /\ IF l.userID \notin DOMAIN otpStore
       THEN /\ AcctFinish(p, VerifyCodeFailure(l.op, l.userID, "code not found"))
            /\ UNCHANGED accepted
       ELSE IF Expired(item, now)
       THEN /\ AcctGoto(p, "evict", l)
            /\ UNCHANGED accepted
       ELSE IF item.code # l.code
       THEN /\ AcctFinish(p, VerifyCodeFailure(l.op, l.userID,
                                               "invalid verification code"))
            /\ UNCHANGED accepted
       ELSE /\ AcctGoto(p, "delete", l)
            /\ accepted' = [accepted EXCEPT ![l.userID] = @ \cup {p}]
    /\ UNCHANGED <<now, users, credentials, otpStore, outbox, acalls,
                   tokenVars, loginResp, codec>>

\* repo.Get on an expired entry: the lazy delete, then "code expired".
VerifyCodeEvict(p) ==
    LET l == aloc[p] IN
    /\ apc[p] = "evict"
    /\ otpStore' = DeleteKey(otpStore, l.userID)
    /\ AcctFinish(p, VerifyCodeFailure(l.op, l.userID, "code expired"))
    /\ UNCHANGED <<now, users, credentials, outbox, acalls, accepted,
                   tokenVars, loginResp, codec>>

\* VerifyCode, step 3: _ = s.repo.Delete(userID)
VerifyCodeDelete(p) ==
    LET l == aloc[p] IN
    /\ apc[p] = "delete"
    /\ otpStore' = DeleteKey(otpStore, l.userID)
    /\ AcctGoto(p, "load", l)
    /\ UNCHANGED <<now, users, credentials, outbox, acalls, accepted,
                   tokenVars, loginResp, codec>>

\* MarkEmailVerified: load the user; nothing to do when already verified.
MarkEmailVerifiedLoad(p) ==
    LET l == aloc[p]
        user == users[l.userID]
    IN
    /\ apc[p] = "load"
    /\ l.op = "verify"
    /\ IF user.verified
       THEN AcctFinish(p, AcctResponse("verify", l.userID, "ok", 200, "email verified"))
       ELSE AcctGoto(p, "save", [l EXCEPT !.user = user])
    /\ UNCHANGED <<now, users, credentials, otpStore, outbox, acalls, accepted,
                   tokenVars, loginResp, codec>>

\* MarkEmailVerified: user.IsEmailVerified = true; userRepo.Update(user)
MarkEmailVerifiedSave(p) ==
    LET l == aloc[p] IN
    /\ apc[p] = "save"
    /\ users' = SaveUser(users, l.userID, [l.user EXCEPT !.verified = TRUE])
    /\ AcctFinish(p, AcctResponse("verify", l.userID, "ok", 200, "email verified"))
    /\ UNCHANGED <<now, credentials, otpStore, outbox, acalls, accepted,
                   tokenVars, loginResp, codec>>

\* ChangePassword, steps 3-6: load the user, find the password credential,
\* verify the old password, hash the new one.
ChangePasswordLoad(p, salt) ==
    LET l == aloc[p]
        pw == PasswordCredentials(credentials, l.userID)
        pwCred == IF pw = {} THEN NoCred
                  ELSE credentials[CHOOSE c \in pw : \A d \in pw : c <= d]
    IN
    /\ apc[p] = "load"
    /\ l.op = "change"
    /\ IF pw = {}
       THEN AcctFinish(p, ChangePasswordFailure(l.userID, "password credential not found"))
       ELSE IF ~ComparePassword(pwCred.value, l.old)
       THEN AcctFinish(p, ChangePasswordFailure(l.userID, "invalid old password"))
       ELSE IF l.new = ""
       THEN AcctFinish(p, ChangePasswordFailure(l.userID, "empty password"))
       ELSE AcctGoto(p, "update",
                     [l EXCEPT !.cred = [pwCred EXCEPT !.value = HashPassword(Argon2Defaults, l.new, salt)]])
    /\ UNCHANGED <<now, users, credentials, otpStore, outbox, acalls, accepted,
                   tokenVars, loginResp, codec>>

\* ChangePassword, step 7: credentialRepo.Update(pwCred)
ChangePasswordUpdate(p) ==
    LET l == aloc[p] IN
    /\ apc[p] = "update"
    /\ credentials' = SaveCredential(credentials, l.cred)
    /\ AcctFinish(p, AcctResponse("change", l.userID, "ok", 200,
                                  "password changed successfully"))
    /\ UNCHANGED <<now, users, otpStore, outbox, acalls, accepted,
                   tokenVars, loginResp, codec>>

\* VerificationController.ResendVerificationCode
ResendVerificationCode(p, email, code) ==
    LET found == GetByEmail(email) IN
    /\ AcctStart(p)
    /\ IF found = {}
       THEN /\ AcctFinish(p, AcctResponse("resend", "", "user not found", 404,
                                          "user not found"))
            /\ UNCHANGED <<otpStore, outbox, accepted>>
       ELSE LET u == CHOOSE x \in found : TRUE IN
            /\ otpStore' = SendVerificationCode(otpStore, u, code, now)
            /\ outbox' = outbox \cup {Message("EmailVerification", email, code)}
            /\ accepted' = [accepted EXCEPT ![u] = {}]
            /\ AcctFinish(p, AcctResponse("resend", u, "ok", 202,
                                          "verification code sent"))
    /\ UNCHANGED <<now, users, credentials, tokenVars, loginResp, codec>>

\* Rows written by the open transactions of the other requests.
PendingEmails(p) ==
    {aloc[q].txUser.email : q \in {r \in Procs \ {p} : apc[r] \in {"credential", "commit"}}}

PendingUserIDs(p) ==
    {aloc[q].userID : q \in {r \in Procs \ {p} : apc[r] \in {"credential", "commit"}}}

PendingCredentialIDs(p) ==
    {aloc[q].txCred.id : q \in {r \in Procs \ {p} : apc[r] = "commit"}}

\* uuid.New() for a users row.
FreshUserID(p) ==
    CHOOSE u \in AllUserIds : u \notin DOMAIN users /\ u \notin PendingUserIDs(p)

\* Register, steps 1-4: begin the transaction, look up the default role,
\* insert the user inside the transaction. The insert waits while another
\* open transaction holds the same e-mail in the unique index.
RegisterBegin(p, email, password, fault) ==
    /\ AcctStart(p)
    /\ IF fault = "role"
       THEN AcctFinish(p, AcctResponse("register", "", "system error: default role not found",
                                       500, "system error: default role not found"))
       ELSE IF GetByEmail(email) # {}
       THEN AcctFinish(p, AcctResponse("register", "", "email already in use",
                                       500, "email already in use"))
       ELSE /\ email \notin PendingEmails(p)
            /\ \E u \in AllUserIds : u \notin DOMAIN users /\ u \notin PendingUserIDs(p)
            /\ AcctGoto(p, "credential",
                        [NoAcct EXCEPT !.op = "register", !.email = email,
                                       !.userID = FreshUserID(p), !.new = password,
                                       !.fault = fault,
                                       !.txUser = NewUser(email, {"user"})])
    /\ UNCHANGED <<now, users, credentials, otpStore, outbox, accepted,
                   tokenVars, loginResp, codec>>

\* Register, steps 5-6: hash the password, insert the credential inside the
\* transaction; on an error the transaction is rolled back.
RegisterCredential(p, salt) ==
    LET l == aloc[p] IN
    /\ apc[p] = "credential"
    /\ IF l.new = ""
       THEN AcctFinish(p, AcctResponse("register", "", "empty password", 500,
                                       "empty password"))
       ELSE IF l.fault = "cred"
       THEN AcctFinish(p, AcctResponse("register", "", "SQL ERROR", 500, "SQL ERROR"))
       ELSE AcctGoto(p, "commit",
                     [l EXCEPT !.txCred =
                         NewCredential(FreshCredentialID(credentials, PendingCredentialIDs(p)),
                                       l.userID, "password", HashPassword(Argon2Defaults, l.new, salt))])
    /\ UNCHANGED <<now, users, credentials, otpStore, outbox, acalls, accepted,
                   tokenVars, loginResp, codec>>

\* Faulty variant: only the user row becomes visible; the credential is lost.
CommitRows_UserOnly(table, creds, l) ==
    [users |-> SaveUser(table, l.userID, l.txUser), credentials |-> creds]

\* tx.Commit(): the rows of the transaction become visible together.
CommitRows(table, creds, l) ==
    [users |-> SaveUser(table, l.userID, l.txUser),
     credentials |-> SaveCredential(creds, l.txCred)]

\* Register, step 7: commit; a failed commit leaves nothing behind.
RegisterCommit(p) ==
    LET l == aloc[p]
        rows == CommitRows(users, credentials, l)
    IN
    /\ apc[p] = "commit"
    /\ IF l.fault = "commit"
       THEN /\ AcctFinish(p, AcctResponse("register", "", "commit failed", 500,
                                          "commit failed"))
            /\ UNCHANGED <<users, credentials>>
       ELSE /\ users' = rows.users
            /\ credentials' = rows.credentials
            /\ AcctGoto(p, "send", l)
    /\ UNCHANGED <<now, otpStore, outbox, acalls, accepted, tokenVars,
                   loginResp, codec>>

\* Register, step 8: SendVerificationCode for the new user, then return.
RegisterSendCode(p, code) ==
    LET l == aloc[p] IN
    /\ apc[p] = "send"
    /\ otpStore' = SendVerificationCode(otpStore, l.userID, code, now)
    /\ outbox' = outbox \cup {Message("EmailVerification", l.email, code)}
    /\ accepted' = [accepted EXCEPT ![l.userID] = {}]
    /\ AcctFinish(p, AcctResponse("register", l.userID, "ok", 201, l.email))
    /\ UNCHANGED <<now, users, credentials, acalls, tokenVars, loginResp, codec>>

\* The answer of /forgot-password/send-otp, the same for every e-mail.
ForgotPasswordSendOTPResponse ==
    AcctResponse("forgot", "", "ok", 200,
                 "if email exists, a password reset code has been sent")

\* /forgot-password/send-otp: when the e-mail resolves, store a code for the
\* user and hand it to the Notifier; otherwise only log.
SendForgotPasswordOTP(p, email, code) ==
    LET found == GetByEmail(email) IN
    /\ AcctStart(p)
    /\ IF found = {}
       THEN UNCHANGED <<otpStore, outbox, accepted>>
       ELSE LET u == CHOOSE x \in found : TRUE IN
            /\ otpStore' = Save(otpStore, u, code, OtpTTL, now)
            /\ outbox' = outbox \cup {Message("PasswordResetOtp", email, code)}
            /\ accepted' = [accepted EXCEPT ![u] = {}]
    /\ AcctFinish(p, ForgotPasswordSendOTPResponse)
    /\ UNCHANGED <<now, users, credentials, tokenVars, loginResp, codec>>

\* VerificationService.SendPasswordChangeCode: a code for the user's
\* password change is stored under the user id.
SendPasswordChangeCode(store, userID, code, t) == Save(store, userID, code, OtpTTL, t)

\* AuthController.SendPasswordChangeOTP -> SendPasswordChangeOTPByUserID: the
\* user id comes from the bearer token.
SendPasswordChangeOTP(p, userID, code) ==
    /\ AcctStart(p)
    /\ IF userID \notin DOMAIN users
       THEN /\ AcctFinish(p, AcctResponse("sendchange", "", "user not found", 404,
                                          "user not found"))
            /\ UNCHANGED <<otpStore, outbox, accepted>>
       ELSE /\ otpStore' = SendPasswordChangeCode(otpStore, userID, code, now)
            /\ outbox' = outbox \cup {Message("PasswordChangeOtp", users[userID].email, code)}
            /\ accepted' = [accepted EXCEPT ![userID] = {}]
            /\ AcctFinish(p, AcctResponse("sendchange", userID, "ok", 200,
                                          "OTP sent to your email"))
    /\ UNCHANGED <<now, users, credentials, tokenVars, loginResp, codec>>

\* The answer of both password-change endpoints to a bearer token that
\* ExtractUserIDFromToken refuses.
InvalidBearer(p, op) ==
    /\ AcctStart(p)
    /\ AcctFinish(p, AcctResponse(op, "", "invalid or expired token", 401,
                                  "invalid or expired token"))
    /\ UNCHANGED <<now, users, credentials, otpStore, outbox, accepted,
                   tokenVars, loginResp, codec>>

\* AuthController.SendPasswordChangeOTP with the Authorization header tok.
SendPasswordChangeOTPRequest(p, tok, code) ==
    LET bearer == ExtractUserIDFromToken(tok, now) IN
    IF ~bearer.ok THEN InvalidBearer(p, "sendchange")
    ELSE SendPasswordChangeOTP(p, bearer.userID, code)

\* AuthController.ChangePassword with the Authorization header tok.
ChangePasswordRequest(p, tok, old, new, code) ==
    LET bearer == ExtractUserIDFromToken(tok, now) IN
    IF ~bearer.ok THEN InvalidBearer(p, "change")
    ELSE ChangePasswordBegin(p, bearer.userID, old, new, code)

\* The goroutine started by a send: EmailService.SendOTP succeeds or fails,
\* and the outcome is only logged.
SendOTP(m, ok) ==
    /\ m \in outbox
    /\ m.state = "queued"
    /\ outbox' = (outbox \ {m}) \cup {[m EXCEPT !.state = IF ok THEN "sent" ELSE "failed"]}
    /\ UNCHANGED <<now, users, credentials, otpStore, accepted, acctVars,
                   tokenVars, loginResp, codec>>

\* bob has registered and not yet verified his e-mail; cy is not registered.
InitAccount ==
    /\ InitCommon
    /\ credentials = InitialCredentials
    /\ users = [u \in UserIds |->
                  [email |-> EmailOf(u), verified |-> (u = "u1"), roles |-> {"user"}]]

Salts == {"pepper"}
Faults == {"none", "role", "cred", "commit"}

NextAccount ==
    \/ Tick
    \/ \E p \in Procs, e \in {"bob@x.test", "cy@x.test"}, pw \in {"pw1", ""},
          f \in Faults : RegisterBegin(p, e, pw, f)
    \/ \E p \in Procs, salt \in Salts : RegisterCredential(p, salt)
    \/ \E p \in Procs : RegisterCommit(p)
    \/ \E p \in Procs, c \in Codes : RegisterSendCode(p, c)
    \/ \E p \in Procs, e \in Emails, c \in Codes : VerifyEmailBegin(p, e, c)
    \/ \E p \in Procs, old \in Passwords, new \in Passwords, c \in Codes :
          ChangePasswordBegin(p, "u1", old, new, c)
    \/ \E p \in Procs : VerifyCodeGet(p)
    \/ \E p \in Procs : VerifyCodeEvict(p)
    \/ \E p \in Procs : VerifyCodeDelete(p)
    \/ \E p \in Procs : MarkEmailVerifiedLoad(p)
    \/ \E p \in Procs : MarkEmailVerifiedSave(p)
    \/ \E p \in Procs, salt \in Salts : ChangePasswordLoad(p, salt)
    \/ \E p \in Procs : ChangePasswordUpdate(p)
    \/ \E p \in Procs, e \in Emails, c \in Codes : ResendVerificationCode(p, e, c)
    \/ \E p \in Procs, e \in Emails, c \in Codes : SendForgotPasswordOTP(p, e, c)

SpecAccount == InitAccount /\ [][NextAccount]_vars

-----------------------------------------------------------------------------
\* The sends and the delivery of their mails

\* The sends and, beside them, the deliveries; no time passes.
MessageKinds == {"EmailVerification", "PasswordChangeOtp", "PasswordResetOtp"}

Messages ==
    [kind : MessageKinds, to : Emails \cup {"cy@x.test"}, code : Codes,
     state : {"queued", "sent", "failed"}]

NextNotify ==
    \/ \E pw \in Passwords : Login("bob@x.test", pw, "111111")
    \/ \E p \in Procs, f \in {"none", "commit"} :
          RegisterBegin(p, "cy@x.test", "pw1", f)
    \/ \E p \in Procs, salt \in Salts : RegisterCredential(p, salt)
    \/ \E p \in Procs : RegisterCommit(p)
    \/ \E p \in Procs : RegisterSendCode(p, "222222")
    \/ \E p \in Procs, e \in {"bob@x.test", "ghost@x.test"} :
          ResendVerificationCode(p, e, "222222")
    \/ \E p \in Procs, u \in {"u1", "u3"} : SendPasswordChangeOTP(p, u, "111111")
    \/ \E m \in Messages, ok \in BOOLEAN : SendOTP(m, ok)

SpecNotify == InitAccount /\ [][NextNotify]_vars

-----------------------------------------------------------------------------
\* Sessions of ada (client p1) beside a password change of ada (client p2)

NextSession ==
    \/ Tick
    \/ \E pw \in Passwords : Login("ada@x.test", pw, "111111")
    \/ \E tok \in issued : RefreshBegin("p1", tok)
    \/ RefreshGrace("p1")
    \/ RefreshCreate("p1")
    \/ RefreshUpdate("p1")
    \/ SendPasswordChangeOTP("p2", "u1", "111111")
    \/ \E old \in Passwords, new \in Passwords :
          ChangePasswordBegin("p2", "u1", old, new, "111111")
    \/ VerifyCodeGet("p2")
    \/ VerifyCodeEvict("p2")
    \/ VerifyCodeDelete("p2")
    \/ \E salt \in Salts : ChangePasswordLoad("p2", salt)
    \/ ChangePasswordUpdate("p2")

SpecSession == Init /\ [][NextSession]_vars

-----------------------------------------------------------------------------
\* Round trips of the signer and the hasher

\* GenerateTokens for user u; the fresh uuid is rid.
IssuePair(u, rid) ==
    /\ codec.kind = "none"
    /\ codec' = [codec EXCEPT !.kind = "jwt", !.path = "pair",
                              !.userID = u, !.refreshID = rid,
                              !.token = GenerateTokens(u, {"user"}, rid, now).RefreshToken]
    /\ UNCHANGED <<now, users, credentials, otpStore, outbox, accepted,
                   acctVars, tokenVars, loginResp>>

\* SignRefreshToken for the existing record rid of user u.
IssueForExisting(u, rid) ==
    /\ codec.kind = "none"
    /\ codec' = [codec EXCEPT !.kind = "jwt", !.path = "resign",
                              !.userID = u, !.refreshID = rid,
                              !.token = SignRefreshToken(rid, u, now)]
    /\ UNCHANGED <<now, users, credentials, otpStore, outbox, accepted,
                   acctVars, tokenVars, loginResp>>

\* ParseRefreshToken on the issued token.
ParseIssued ==
    /\ codec.kind = "jwt"
    /\ codec.result = "none"
    /\ LET parsed == ParseRefreshToken(codec.token, now) IN
       codec' = [codec EXCEPT !.parsed = parsed, !.at = now,
                              !.result = IF parsed.ok THEN "ok"
                                         ELSE "invalid or expired refresh token"]
    /\ UNCHANGED <<now, users, credentials, otpStore, outbox, accepted,
                   acctVars, tokenVars, loginResp>>

\* InitArgon2Params: the process starts with the settings g of its environment.
InitArgon2Params(g) ==
    /\ codec.result = "none"
    /\ codec.kind \in {"none", "hash"}
    /\ codec.settings # g
    /\ codec' = [codec EXCEPT !.settings = g]
    /\ UNCHANGED <<now, users, credentials, otpStore, outbox, accepted,
                   acctVars, tokenVars, loginResp>>

\* HashPassword of a non-empty password under the settings in force.
HashStep(password, salt) ==
    /\ codec.kind = "none"
    /\ password # ""
    /\ codec' = [codec EXCEPT !.kind = "hash", !.password = password,
                              !.encoded = HashPassword(codec.settings, password, salt)]
    /\ UNCHANGED <<now, users, credentials, otpStore, outbox, accepted,
                   acctVars, tokenVars, loginResp>>

\* ComparePassword of the stored hash with a candidate password.
CompareStep(plain) ==
    /\ codec.kind = "hash"
    /\ codec.result = "none"
    /\ codec' = [codec EXCEPT !.plain = plain, !.at = now,
                              !.result = IF ComparePassword(codec.encoded, plain)
                                         THEN "ok" ELSE "invalid password"]
    /\ UNCHANGED <<now, users, credentials, otpStore, outbox, accepted,
                   acctVars, tokenVars, loginResp>>

NextCodec ==
    \/ Tick
    \/ \E u \in UserIds, rid \in RIds : IssuePair(u, rid)
    \/ \E u \in UserIds, rid \in RIds : IssueForExisting(u, rid)
    \/ ParseIssued
    \/ \E g \in Argon2Settings : InitArgon2Params(g)
    \/ \E pw \in Passwords, salt \in Salts : HashStep(pw, salt)
    \/ \E pw \in Passwords : CompareStep(pw)

SpecCodec == Init /\ [][NextCodec]_vars

-----------------------------------------------------------------------------
\* Properties

\* The presented token passes the validation gate up to the owner check.
GatePassed(tok) ==
    /\ ParseRefreshToken(tok, now).ok
    /\ tok.jti \in DOMAIN refreshStore
    /\ refreshStore[tok.jti].user_id = tok.sub

InFlight(p) == pc[p] \in {"grace", "rotate", "update", "compensate"}

\* C1: of two successful Refresh calls on the same parent, one of which
\* inserted a new row (Case N), the other took Case G and returned a refresh
\* JWT bound to the first one's child.
C1_OneRotationWins ==
    \A p \in Procs, q \in Procs :
        ( /\ p # q
          /\ pc[p] = "done" /\ pc[q] = "done"
          /\ resp[p].status = "ok" /\ resp[q].status = "ok"
          /\ resp[p].parent = resp[q].parent
          /\ resp[p].kind = "N" )
        => (resp[q].kind = "G" /\ resp[q].refresh.jti = resp[p].child)

C3_ReplacedExactlyOnce ==
    [][\A r \in DOMAIN refreshStore :
          (refreshStore[r].replaced_at # NULL /\ r \in DOMAIN refreshStore') =>
              /\ refreshStore'[r].replaced_at = refreshStore[r].replaced_at
              /\ refreshStore'[r].replaced_by = refreshStore[r].replaced_by]_vars

\* C4: when no Refresh call on a parent row is in flight, every stored row
\* inserted by a rotation of that parent is the row the parent points to.
C4_NoOrphanChild ==
    \A c \in DOMAIN refreshStore :
        LET parent == inserted[c].parent IN
        ( /\ parent # NULL
          /\ parent \in DOMAIN refreshStore
          /\ \A p \in Procs : InFlight(p) => loc[p].existing.id # parent )
        => refreshStore[parent].replaced_by = c

C6_GraceResignsChild ==
    [][\A p \in Procs :
          /\ \A tok \in issued :
                ( /\ RefreshBegin(p, tok)
                  /\ GatePassed(tok)
                  /\ refreshStore[tok.jti].revoked_at = NULL
                  /\ refreshStore[tok.jti].replaced_at # NULL
                  /\ now - refreshStore[tok.jti].replaced_at <= GracePeriod
                  /\ refreshStore[tok.jti].replaced_by \in DOMAIN refreshStore )
                => /\ pc'[p] = "grace"
                   /\ loc'[p].existing = refreshStore[tok.jti]
                   /\ refreshStore' = refreshStore
          /\ ( /\ RefreshGrace(p)
               /\ loc[p].existing.replaced_by \in DOMAIN refreshStore )
             => /\ pc'[p] = "done"
                /\ resp'[p].status = "ok"
                /\ resp'[p].refresh.jti = loc[p].existing.replaced_by
                /\ resp'[p].refresh.sub =
                       refreshStore[loc[p].existing.replaced_by].user_id
                /\ resp'[p].refresh \in issued'
                /\ refreshStore' = refreshStore
                /\ inserted' = inserted]_vars

C6_Witness ==
    \E p \in Procs :
        /\ pc[p] = "done"
        /\ resp[p].status = "ok"
        /\ resp[p].kind = "G"
        /\ resp[p].parent \in DOMAIN refreshStore
        /\ resp[p].refresh.jti = refreshStore[resp[p].parent].replaced_by

\* C7: a Refresh that passes the gate on a row whose revoked_at is set ends
\* with Revoked and no token, whatever replaced_at is.
C7_RevocationWins ==
    [][\A p \in Procs, tok \in issued :
          ( /\ RefreshBegin(p, tok)
            /\ GatePassed(tok)
            /\ refreshStore[tok.jti].revoked_at # NULL )
          => /\ pc'[p] = "done"
             /\ resp'[p].status = "token was revoked"
             /\ resp'[p].access = NoAccess
             /\ resp'[p].refresh = NoToken
             /\ issued' = issued
             /\ refreshStore' = refreshStore]_vars

\* A revoked answer for a row that is revoked and was replaced outside grace.
C7_Witness ==
    \E p \in Procs :
        /\ pc[p] = "done"
        /\ resp[p].status = "token was revoked"
        /\ resp[p].parent \in DOMAIN refreshStore
        /\ refreshStore[resp[p].parent].revoked_at # NULL
        /\ refreshStore[resp[p].parent].replaced_at # NULL
        /\ now - refreshStore[resp[p].parent].replaced_at > GracePeriod

\* C8: once revoked_at is set on a row it stays set while the row is stored.
C8_RevokedIsTerminal ==
    [][\A r \in DOMAIN refreshStore :
          (refreshStore[r].revoked_at # NULL /\ r \in DOMAIN refreshStore') =>
              refreshStore'[r].revoked_at # NULL]_vars

\* C9: a Refresh whose token names a stored row with expires_at < now is
\* rejected: it proceeds neither to Case N nor to Case G.
C9_ExpiredIsTerminal ==
    [][\A p \in Procs, tok \in issued :
          ( /\ RefreshBegin(p, tok)
            /\ tok.jti \in DOMAIN refreshStore
            /\ refreshStore[tok.jti].expires_at < now )
          => /\ pc'[p] = "done"
             /\ resp'[p].status # "ok"]_vars

\* C10: a Login with the right password of an unverified user answers
\* "email not verified", inserts no refresh row, issues no token and leaves
\* a fresh OTP entry for the user.
C10_UnverifiedLogin ==
    [][\A u \in UserIds, c \in Codes :
          ( /\ Login(EmailOf(u), PasswordOf(u), c)
            /\ ~users[u].verified )
          => /\ loginResp'.status = "email not verified"
             /\ loginResp'.access = NoAccess
             /\ loginResp'.refresh = NoToken
             /\ refreshStore' = refreshStore
             /\ issued' = issued
             /\ u \in DOMAIN otpStore'
             /\ otpStore'[u] = [code |-> c, expiresAt |-> now + OtpTTL]]_vars

C10_Witness ==
    /\ loginResp.status = "email not verified"
    /\ "u2" \in DOMAIN otpStore
    /\ otpStore["u2"].expiresAt = now + OtpTTL
    /\ now > 0

\* The supplied password is the one whose hash is stored in a password
\* credential of the user registered under the e-mail address.
PasswordVerifies(email, password) ==
    \E u \in DOMAIN users, c \in DOMAIN credentials :
        /\ users[u].email = email
        /\ credentials[c].user_id = u
        /\ credentials[c].type = "password"
        /\ credentials[c].value.hash =
               IDKey(password, credentials[c].value.salt, credentials[c].value.t,
                     credentials[c].value.m, credentials[c].value.p, argon2KeyLength)

\* C11: a Login whose password does not verify (unknown e-mail, no password
\* credential, wrong password) always gives the same InvalidCredentials
\* result with status 401 and changes no state; EmailNotVerified and success
\* are given only when the password verified against the stored hash.
C11_LoginDoesNotDistinguish ==
    [][\A e \in LoginEmails, pw \in Passwords, c \in Codes :
          Login(e, pw, c) =>
              /\ ~PasswordVerifies(e, pw) =>
                    /\ loginResp' = Failure("invalid credentials", NULL)
                    /\ LoginController(loginResp') =
                           [code |-> 401, error |-> "invalid credentials"]
                    /\ UNCHANGED <<users, credentials, otpStore, outbox,
                                   refreshStore, inserted, issued>>
              /\ loginResp'.status \in {"ok", "email not verified"} =>
                    PasswordVerifies(e, pw)]_vars

\* An InvalidCredentials answer given after a success and an unverified
\* login, whose effects are all still in place.
C11_Witness ==
    /\ loginResp.status = "invalid credentials"
    /\ issued # {}
    /\ DOMAIN otpStore = {"u2"}
    /\ Cardinality(DOMAIN refreshStore) = 1

\* C12 (as claimed): the current OTP entry of a user is accepted by at most
\* one verification, also when verifications overlap.
C12_SingleUse ==
    \A u \in AllUserIds : Cardinality(accepted[u]) <= 1

\* C12 (amended): when a verification accepts an OTP entry, every other
\* verification that accepted the same entry is still between its read and
\* its delete; once an accepting verification has deleted the entry no later
\* read accepts it.
C12_SingleUseSequential ==
    [][\A p \in Procs :
          (VerifyCodeGet(p) /\ apc'[p] = "delete") =>
              \A q \in accepted[aloc[p].userID] :
                  /\ q # p
                  /\ apc[q] = "delete"
                  /\ aloc[q].userID = aloc[p].userID]_vars

\* One verification was accepted and finished; a later one with the same
\* user found no code.
C12_Witness ==
    \E p \in Procs, q \in Procs :
        /\ p # q
        /\ aresp[p].op \in {"verify", "change"}
        /\ aresp[p].status = "ok"
        /\ aresp[q].op \in {"verify", "change"}
        /\ aresp[q].status = "code not found"
        /\ aresp[q].userID = aresp[p].userID
        /\ accepted[aresp[p].userID] = {p}

\* A verify_code request answers in this step with an error.
VerifyEmailFails(p) ==
    /\ apc'[p] = "done"
    /\ aresp'[p].op = "verify"
    /\ aresp'[p].status # "ok"
    /\ (acalls' = acalls + 1 \/ apc[p] \notin {"idle", "done"})

\* A verify_code request answers in this step with success.
VerifyEmailSucceeds(p) ==
    /\ apc[p] \in {"load", "save"}
    /\ aloc[p].op = "verify"
    /\ apc'[p] = "done"

\* C13 (as claimed): when verify_code returns success the user's
\* email_verified is true and the store holds no OTP entry for the user; a
\* verify_code that returns an error has written no users row.
C13_VerifyLeavesNoEntry ==
    [][\A p \in Procs :
          /\ VerifyEmailSucceeds(p) =>
                /\ aresp'[p].status = "ok"
                /\ users'[aloc[p].userID].verified
                /\ aloc[p].userID \notin DOMAIN otpStore'
          /\ VerifyEmailFails(p) => users' = users]_vars

\* C13 (amended): when verify_code returns success the user's email_verified is true
\* and the OTP entry it verified is gone (an entry present then was stored
\* by a send that ran after the verification read the store); a verify_code
\* that returns an error has written no users row in any of its steps.
C13_VerifyMarksUser ==
    [][\A p \in Procs :
          /\ VerifyEmailSucceeds(p) =>
                /\ aresp'[p].status = "ok"
                /\ users'[aloc[p].userID].verified
                /\ (aloc[p].userID \notin DOMAIN otpStore'
                        \/ p \notin accepted'[aloc[p].userID])
          /\ VerifyEmailFails(p) =>
                /\ users' = users
                /\ apc[p] \in {"idle", "done", "get", "evict"}
          /\ (aloc[p].op = "verify" /\ apc[p] \in {"get", "evict", "delete"}) =>
                (apc'[p] # apc[p] => users' = users)]_vars

\* bob's verification has returned success: he is verified and has no entry.
C13_Witness ==
    \E p \in Procs :
        /\ aresp[p].op = "verify"
        /\ aresp[p].status = "ok"
        /\ aresp[p].userID = "u2"
        /\ users["u2"].verified
        /\ "u2" \notin DOMAIN otpStore

\* C14: a /refresh that ends with ReuseDetected is answered with status 401
\* and an error body that names the reuse.
C14_ReuseAnswers401 ==
    \A p \in Procs :
        (pc[p] = "done" /\ resp[p].status = "refresh token reuse detected") =>
            /\ RefreshController(resp[p]).code = 401
            /\ RefreshController(resp[p]).error = "refresh token reuse detected"

\* C15: a /refresh that ends with InvalidToken (parse failure, unknown jti,
\* owner mismatch) or with Revoked is answered with status 401.
C15_InvalidOrRevokedAnswers401 ==
    \A p \in Procs :
        ( /\ pc[p] = "done"
          /\ resp[p].status \in {"invalid refresh token",
                                  "invalid or unknown refresh token",
                                  "user mismatch", "token was revoked"} )
        => RefreshController(resp[p]).code = 401

\* A Register request answers in this step with an error.
RegisterFails(p) ==
    /\ apc'[p] = "done"
    /\ aresp'[p].op = "register"
    /\ aresp'[p].status # "ok"
    /\ (acalls' = acalls + 1 \/ apc[p] \in {"credential", "commit"})

ActivePasswordCredentials(creds, u) ==
    {c \in DOMAIN creds :
        creds[c].user_id = u /\ creds[c].type = "password" /\ creds[c].active}

\* C16: a Register that fails writes no users row (with its role) and no
\* credential; a duplicate e-mail is answered EmailInUse; the only step that
\* adds rows is the commit of a Register, which adds exactly one user with
\* email_verified = false and the role user, and exactly one password
\* credential of that user, and whose request then returns success.
C16_RegisterAllOrNothing ==
    [][/\ \A p \in Procs :
            /\ RegisterFails(p) =>
                  (users' = users /\ credentials' = credentials)
            /\ (aloc[p].op = "register" /\ apc[p] = "credential"
                  /\ apc'[p] # "credential") =>
                  (users' = users /\ credentials' = credentials)
            /\ (acalls' = acalls + 1 /\ "register" \in {aresp'[p].op, aloc'[p].op}) =>
                  \A e \in Emails \cup {"cy@x.test"}, pw \in {"pw1", ""},
                     f \in Faults \ {"role"} :
                      ( /\ RegisterBegin(p, e, pw, f)
                        /\ \E u \in DOMAIN users : users[u].email = e )
                      => /\ aresp'[p].status = "email already in use"
                         /\ users' = users /\ credentials' = credentials
            /\ (aloc[p].op = "register" /\ apc[p] = "send" /\ apc'[p] # "send") =>
                  (aresp'[p].status = "ok" /\ aresp'[p].http = 201)
       /\ (DOMAIN users' # DOMAIN users \/ DOMAIN credentials' # DOMAIN credentials) =>
            \E p \in Procs :
                LET u == aloc[p].userID IN
                /\ aloc[p].op = "register"
                /\ apc[p] = "commit" /\ apc'[p] = "send"
                /\ u \notin DOMAIN users
                /\ DOMAIN users' = DOMAIN users \cup {u}
                /\ users'[u] = [email |-> aloc[p].email, verified |-> FALSE,
                                roles |-> {"user"}]
                /\ \A v \in DOMAIN users : users'[v] = users[v]
                /\ Cardinality(DOMAIN credentials') = Cardinality(DOMAIN credentials) + 1
                /\ \A c \in DOMAIN credentials :
                      c \in DOMAIN credentials' /\ credentials'[c] = credentials[c]
                /\ Cardinality(ActivePasswordCredentials(credentials', u)) = 1
                /\ \A c \in DOMAIN credentials' \ DOMAIN credentials :
                      credentials'[c].user_id = u]_vars

\* One Register has succeeded for cy and another was refused as a duplicate.
C16_Witness ==
    \E p \in Procs, q \in Procs :
        /\ aresp[p].op = "register" /\ aresp[p].status = "ok"
        /\ aresp[q].op = "register" /\ aresp[q].status = "email already in use"
        /\ \E u \in DOMAIN users :
              /\ users[u].email = "cy@x.test"
              /\ ~users[u].verified
              /\ Cardinality(ActivePasswordCredentials(credentials, u)) = 1

\* C17: every user has at most one active credential of type password.
C17_OnePasswordCredential ==
    \A u \in AllUserIds :
        Cardinality(ActivePasswordCredentials(credentials, u)) <= 1

\* Two overlapping change_password requests of ada have both succeeded.
C17_Witness ==
    /\ \A p \in Procs :
          aresp[p].op = "change" /\ aresp[p].status = "ok" /\ aresp[p].userID = "u1"
    /\ Cardinality(ActivePasswordCredentials(credentials, "u1")) = 1
    /\ ~ComparePassword(credentials[1].value, "pw1")

\* C18: send_reset_otp gives the same success answer whether or not the
\* e-mail resolves; for an e-mail of no user the OTP store is unchanged and
\* nothing is handed to the Notifier.
C18_ResetOtpDoesNotEnumerate ==
    [][\A p \in Procs, e \in Emails, c \in Codes :
          SendForgotPasswordOTP(p, e, c) =>
              /\ aresp'[p].status = "ok"
              /\ aresp'[p].http = 200
              /\ aresp'[p].body = "if email exists, a password reset code has been sent"
              /\ aresp'[p].userID = ""
              /\ (\A u \in DOMAIN users : users[u].email # e) =>
                    (otpStore' = otpStore /\ outbox' = outbox)]_vars

\* Only send_reset_otp requests for an unknown e-mail have run.
C18_Witness ==
    /\ \E p \in Procs : aresp[p].op = "forgot" /\ aresp[p].status = "ok"
    /\ acalls = MaxOps
    /\ otpStore = <<>>
    /\ outbox = {}

C20_HashRoundTrip ==
    (codec.kind = "hash" /\ codec.result # "none" /\ codec.plain = codec.password)
    => codec.result = "ok"

\* A request of p returns in this step with the answer of a send.
SendReturns(p, op, http) ==
    /\ aresp'[p] # aresp[p]
    /\ aresp'[p].op = op
    /\ aresp'[p].status = "ok"
    /\ aresp'[p].http = http

\* The code stored for user u is on its way to e-mail address e.
CodeQueued(box, store, u, e) ==
    /\ u \in DOMAIN store
    /\ \E m \in box : m.to = e /\ m.code = store[u].code /\ m.state = "queued"

C22_RowsLeaveTwoWays ==
    [][\A r \in DOMAIN refreshStore \ DOMAIN refreshStore' :
          \/ /\ refreshStore[r].expires_at < now
             /\ pc' = pc
          \/ \E p \in Procs :
                /\ pc[p] = "compensate"
                /\ pc'[p] = "done"
                /\ resp'[p].status = "failed to rotate token"
                /\ loc[p].pair.RefreshID = r
                /\ inserted[r].parent = loc[p].existing.id
                /\ DOMAIN refreshStore' = DOMAIN refreshStore \ {r}]_vars

\* One row was removed by the janitor after its expiry, and the unexpired
\* child of a failed rotation was deleted by that rotation.
C22_Witness ==
    \E r1 \in DOMAIN inserted \ DOMAIN refreshStore,
       r2 \in DOMAIN inserted \ DOMAIN refreshStore :
        /\ inserted[r1].expires_at < now
        /\ inserted[r2].expires_at >= now
        /\ inserted[r2].parent # NULL
        /\ \E p \in Procs : resp[p].status = "failed to rotate token"

\* C23: a save for a key replaces the whole entry by the new code with the
\* new expiry and touches no other key; a verification accepts only the code
\* the store holds when it reads, within that entry's expiry.
C23_SaveOverwrites ==
    [][/\ \A u \in DOMAIN otpStore' :
            (u \notin DOMAIN otpStore \/ otpStore'[u] # Load(otpStore, u)) =>
                /\ otpStore'[u].expiresAt = now + OtpTTL
                /\ \E m \in outbox' : m.code = otpStore'[u].code /\ m.state = "queued"
                /\ \A k \in DOMAIN otpStore \ {u} :
                      k \in DOMAIN otpStore' /\ otpStore'[k] = otpStore[k]
       /\ \A p \in Procs, c \in Codes :
            (/\ acalls' = acalls + 1
             /\ aresp'[p].op = "resend" /\ aresp'[p].status = "ok"
             /\ ResendVerificationCode(p, "bob@x.test", c)) =>
                otpStore'["u2"] = [code |-> c, expiresAt |-> now + OtpTTL]
       /\ \A p \in Procs :
            (apc[p] = "get" /\ apc'[p] = "delete") =>
                /\ otpStore[aloc[p].userID].code = aloc[p].code
                /\ now <= otpStore[aloc[p].userID].expiresAt]_vars

\* bob was sent both codes, the second at a later time; the store holds the
\* second with its own expiry and a verification with the first was refused.
C23_Witness ==
    /\ \A c \in Codes : \E m \in outbox : m.to = "bob@x.test" /\ m.code = c
    /\ "u2" \in DOMAIN otpStore
    /\ otpStore["u2"] = [code |-> "222222", expiresAt |-> MaxTime]
    /\ \E p \in Procs :
          /\ aresp[p].op = "verify"
          /\ aresp[p].status = "invalid verification code"

\* C24: Get on an entry whose expiry has passed answers "code expired" and
\* leaves no entry for the key; Get on an unexpired entry compares its code
\* and leaves the store alone; Get without an entry answers "code not found"
\* and changes nothing.
C24_LazyEviction ==
    [][\A p \in Procs :
          LET u == aloc[p].userID IN
          /\ (apc[p] = "get" /\ apc'[p] # "get") =>
                /\ otpStore' = otpStore
                /\ IF u \notin DOMAIN otpStore
                   THEN apc'[p] = "done" /\ aresp'[p].status = "code not found"
                   ELSE IF now > otpStore[u].expiresAt
                   THEN apc'[p] = "evict"
                   ELSE IF otpStore[u].code = aloc[p].code
                   THEN apc'[p] = "delete"
                   ELSE apc'[p] = "done" /\ aresp'[p].status = "invalid verification code"
          /\ (apc[p] = "evict" /\ apc'[p] # "evict") =>
                /\ aresp'[p].status = "code expired"
                /\ u \notin DOMAIN otpStore'
                /\ \A k \in DOMAIN otpStore \ {u} :
                      k \in DOMAIN otpStore' /\ otpStore'[k] = otpStore[k]]_vars

\* A verification found the entry expired and removed it.
C24_Witness ==
    \E p \in Procs :
        /\ aresp[p].status = "code expired"
        /\ aresp[p].userID # ""
        /\ aresp[p].userID \notin DOMAIN otpStore
        /\ \E m \in outbox : m.to = users[aresp[p].userID].email

\* C25: an entry is removed only by the verification that accepted this very
\* entry, or once its own expiry has passed.
C25_NoStaleDelete ==
    [][\A u \in DOMAIN otpStore \ DOMAIN otpStore' :
          \/ now > otpStore[u].expiresAt
          \/ \E p \in accepted[u] : apc[p] = "delete" /\ aloc[p].userID = u]_vars

\* C26: verify_code for an e-mail of no user is answered 404, a status it
\* does not share with the answer for a wrong, expired or missing code.
C26_VerifyUnknownEmailIs404 ==
    \A p \in Procs :
        (aresp[p].op = "verify" /\ aresp[p].status = "user not found") =>
            /\ aresp[p].http = 404
            /\ aresp[p].http #
                  VerifyCodeFailure("verify", "u1", "invalid verification code").http

\* C27: a change_password request writes the credential only in its last
\* step, which it reaches only after the store held its code unexpired and
\* its old password verified against the stored hash; a request that fails
\* (missing, expired or wrong code, wrong old password, old equal to new)
\* leaves every credential as it was, so the old password still verifies.
C27_ChangeNeedsOtpAndOldPassword ==
    [][/\ \A p \in Procs :
            LET l == aloc[p] IN
            /\ (aresp'[p] # aresp[p] /\ aresp'[p].op = "change"
                   /\ aresp'[p].status # "ok") =>
                  /\ credentials' = credentials
                  /\ \A pw \in Passwords :
                        PasswordVerifies("ada@x.test", pw)' = PasswordVerifies("ada@x.test", pw)
            /\ (l.op = "change" /\ apc[p] = "get" /\ apc'[p] = "delete") =>
                  /\ otpStore[l.userID].code = l.code
                  /\ now <= otpStore[l.userID].expiresAt
            /\ (l.op = "change" /\ apc[p] = "load" /\ apc'[p] = "update") =>
                  /\ PasswordVerifies(users[l.userID].email, l.old)
                  /\ l.old # l.new
            /\ (l.op = "change" /\ apc[p] = "update" /\ apc'[p] # "update") =>
                  aresp'[p].status = "ok"
       /\ (credentials' # credentials /\ DOMAIN credentials' = DOMAIN credentials) =>
            \E p \in Procs :
                /\ aloc[p].op = "change"
                /\ apc[p] = "update"
                /\ aresp'[p].status = "ok"]_vars

\* A change_password with a wrong old password and one with a wrong code
\* have failed, and ada's first password still verifies.
C27_Witness ==
    /\ \E p \in Procs : aresp[p].op = "change" /\ aresp[p].status = "invalid old password"
    /\ \E p \in Procs : aresp[p].op = "change" /\ aresp[p].status = "invalid verification code"
    /\ credentials[1] = InitialCredentials[1]
    /\ PasswordVerifies("ada@x.test", "pw1")

\* C28: no step of a change_password request touches a refresh row or a
\* user; its successful last step changes nothing but the value of that
\* user's password credential, after its code was removed from the store;
\* and a refresh token whose row is present, unrevoked and not replaced is
\* taken into rotation whatever the credentials are.
C28_ChangeLeavesSessions ==
    [][/\ \A p \in Procs :
            LET l == aloc[p] IN
            /\ (l.op = "change" /\ apc'[p] # apc[p]) =>
                  /\ refreshStore' = refreshStore
                  /\ issued' = issued
                  /\ users' = users
            /\ (l.op = "change" /\ apc[p] = "delete" /\ apc'[p] # "delete") =>
                  l.userID \notin DOMAIN otpStore'
            /\ (l.op = "change" /\ apc[p] = "update" /\ apc'[p] # "update") =>
                  /\ aresp'[p].status = "ok"
                  /\ otpStore' = otpStore
                  /\ DOMAIN credentials' = DOMAIN credentials
                  /\ \A c \in DOMAIN credentials :
                        IF credentials[c].user_id = l.userID
                           /\ credentials[c].type = "password"
                        THEN /\ credentials'[c] =
                                  [credentials[c] EXCEPT !.value = credentials'[c].value]
                             /\ \A pw \in Passwords, e \in Emails :
                                  (pw = l.new /\ e = users[l.userID].email) =>
                                      PasswordVerifies(e, pw)'
                        ELSE credentials'[c] = credentials[c]
       /\ \A tok \in issued :
            (/\ calls' = calls + 1
             /\ RefreshBegin("p1", tok)
             /\ tok.exp >= now
             /\ tok.jti \in DOMAIN refreshStore
             /\ refreshStore[tok.jti].user_id = tok.sub
             /\ refreshStore[tok.jti].revoked_at = NULL
             /\ refreshStore[tok.jti].replaced_at = NULL) =>
                pc'["p1"] = "rotate"]_vars

\* ada's password was changed and a token of one of her logins was rotated:
\* the parent row is marked replaced and the child was created later.
C28_Witness ==
    /\ aresp["p2"].op = "change" /\ aresp["p2"].status = "ok"
    /\ ~PasswordVerifies("ada@x.test", "pw1")
    /\ resp["p1"].status = "ok" /\ resp["p1"].kind = "N"
    /\ resp["p1"].child \in DOMAIN refreshStore
    /\ inserted[resp["p1"].child].created_at > inserted[resp["p1"].parent].created_at

\* C29: change_password accepts only a code that send_change_otp stored for
\* the user, and verify_code only a code of an e-mail verification send.
C29_OtpBoundToPurpose ==
    [][\A p \in Procs :
          LET l == aloc[p] IN
          (apc[p] = "get" /\ apc'[p] = "delete") =>
              \E m \in outbox :
                  /\ m.to = users[l.userID].email
                  /\ m.code = l.code
                  /\ m.kind = IF l.op = "change" THEN "PasswordChangeOtp"
                              ELSE "EmailVerification"]_vars

\* C30: a verification with a wrong code against an unexpired entry is
\* answered "invalid verification code" and leaves the entry, the users and
\* the credentials unchanged; the stored code is accepted within its expiry.
C30_WrongCodeKeepsEntry ==
    [][\A p \in Procs :
          LET l == aloc[p] IN
          (/\ apc[p] = "get" /\ apc'[p] # "get"
           /\ l.userID \in DOMAIN otpStore
           /\ now <= otpStore[l.userID].expiresAt) =>
              IF otpStore[l.userID].code # l.code
              THEN /\ apc'[p] = "done"
                   /\ aresp'[p].status = "invalid verification code"
                   /\ aresp'[p].http = IF aresp'[p].op = "verify" THEN 401 ELSE 400
                   /\ otpStore' = otpStore
                   /\ users' = users
                   /\ credentials' = credentials
              ELSE apc'[p] = "delete"]_vars

\* bob's verification with a wrong code was refused, the entry stayed, and
\* a verification with the stored code has verified his e-mail.
C30_Witness ==
    /\ \E p \in Procs :
          /\ aresp[p].op = "verify"
          /\ aresp[p].userID = "u2"
          /\ aresp[p].status = "invalid verification code"
    /\ \E q \in Procs :
          /\ aresp[q].op = "verify"
          /\ aresp[q].userID = "u2"
          /\ aresp[q].status = "ok"
    /\ users["u2"].verified
    /\ Cardinality({m \in outbox : m.to = "bob@x.test"}) = 1

-----------------------------------------------------------------------------
\* The access-token lifetime under the configured JWT_ACCESS_TTL

\* Values of JWT_ACCESS_TTL: unset, two durations, and a string
\* time.ParseDuration refuses.
TTLValues == {"", "15m", "30m", "soon"}

\* expires_in of Login and Refresh: JWT_ACCESS_TTL is read again for every
\* response, "15m" stands in for an unset value, and the error of
\* time.ParseDuration is dropped, which leaves a zero duration.
ExpiresIn(value) ==
    LET accessTTLStr == IF value = "" THEN "15m" ELSE value IN
    ParseDuration(accessTTLStr).d

\* Process start. The package variables of util are initialised before main
\* runs, from the environment of the process (env); main then loads the .env
\* file (dot), which sets the variables the environment does not set.
LoadEnvironment(env, dot) ==
    /\ codec.kind = "none"
    /\ codec' = [kind |-> "ttl", path |-> "start",
                 accessTTL |-> parseTokenTTL(env, AccessTTL),
                 env |-> IF env = "" THEN dot ELSE env,
                 access |-> NoAccess, expiresIn |-> NULL]
    /\ UNCHANGED <<now, users, credentials, otpStore, outbox, accepted,
                   acctVars, tokenVars, loginResp>>

\* The access token and the expires_in of one successful response: of Login
\* or Case N (GenerateTokens) or of Case G (GenerateAccessTokenOnly).
IssueAccessToken(path, u) ==
    /\ codec.kind = "ttl"
    /\ codec.path = "start"
    /\ codec' = [codec EXCEPT
                   !.path = path,
                   !.access = AccessClaims(codec.accessTTL, u, users[u].roles,
                                           IF path = "G" THEN GraceAudience
                                           ELSE LoginAudience, now),
                   !.expiresIn = ExpiresIn(codec.env)]
    /\ UNCHANGED <<now, users, credentials, otpStore, outbox, accepted,
                   acctVars, tokenVars, loginResp>>

NextTTL ==
    \/ Tick
    \/ \E env \in TTLValues, dot \in TTLValues : LoadEnvironment(env, dot)
    \/ \E path \in {"login", "N", "G"}, u \in UserIds : IssueAccessToken(path, u)

SpecTTL == Init /\ [][NextTTL]_vars

-----------------------------------------------------------------------------
\* bob verifies his e-mail from two clients, logs in, refreshes and changes
\* his password; no time passes, so no code expires.

NextVerified ==
    \/ \E pw \in Passwords : Login("bob@x.test", pw, "111111")
    \/ \E tok \in issued : RefreshBegin("p1", tok)
    \/ RefreshCreate("p1")
    \/ RefreshUpdate("p1")
    \/ \E p \in Procs : VerifyEmailBegin(p, "bob@x.test", "111111")
    \/ \E p \in Procs : VerifyCodeGet(p)
    \/ \E p \in Procs : VerifyCodeDelete(p)
    \/ \E p \in Procs : MarkEmailVerifiedLoad(p)
    \/ \E p \in Procs : MarkEmailVerifiedSave(p)
    \/ SendPasswordChangeOTP("p2", "u2", "111111")
    \/ ChangePasswordBegin("p2", "u2", "pw2", "pw1", "111111")
    \/ \E salt \in Salts : ChangePasswordLoad("p2", salt)
    \/ ChangePasswordUpdate("p2")

SpecVerified == InitAccount /\ [][NextVerified]_vars

-----------------------------------------------------------------------------
\* Sessions of ada while her roles are changed

\* The role codes seeded by SeedRoles, as sets a user can hold.
RoleSets == {{}, {"user"}, {"user", "admin"}}

\* A change of the user's rows in the user_roles join table (made by an
\* administrator on the database; the service has no endpoint for it).
SetRoles(userID, roles) ==
    /\ userID \in DOMAIN users
    /\ users[userID].roles # roles
    /\ users' = [users EXCEPT ![userID].roles = roles]
    /\ UNCHANGED <<now, credentials, otpStore, outbox, accepted, acctVars,
                   tokenVars, loginResp, codec>>

NextRoles ==
    \/ Tick
    \/ Login("ada@x.test", "pw1", "111111")
    \/ Refresh
    \/ \E roles \in RoleSets : SetRoles("u1", roles)

SpecRoles == Init /\ [][NextRoles]_vars

-----------------------------------------------------------------------------
\* The password-change endpoints called with the tokens ada's client holds

\* What a client can put into the Authorization header: the access and the
\* refresh tokens it was handed.
Bearers ==
    issued \cup {loginResp.access} \cup {resp[p].access : p \in Procs}

NextBearer ==
    \/ Tick
    \/ \E pw \in Passwords : Login("ada@x.test", pw, "111111")
    \/ \E tok \in issued : RefreshBegin("p1", tok)
    \/ RefreshCreate("p1")
    \/ RefreshUpdate("p1")
    \/ \E tok \in Bearers : SendPasswordChangeOTPRequest("p2", tok, "111111")
    \/ \E tok \in Bearers : ChangePasswordRequest("p2", tok, "pw1", "pw2", "111111")
    \/ VerifyCodeGet("p2")
    \/ VerifyCodeEvict("p2")
    \/ VerifyCodeDelete("p2")
    \/ \E salt \in Salts : ChangePasswordLoad("p2", salt)
    \/ ChangePasswordUpdate("p2")

SpecBearer == Init /\ [][NextBearer]_vars

-----------------------------------------------------------------------------
\* C31: a Refresh succeeds only when the hash of the presented signed refresh
\* string equals the token_hash stored in the row its jti names.
C31_HashAuthorizes ==
    [][\A p \in Procs :
          (pc[p] \in {"grace", "update"} /\ pc'[p] = "done"
             /\ resp'[p].status = "ok")
          => HashToken(loc[p].token) = loc[p].existing.token_hash]_vars

\* C32: a refresh token is never accepted where an access token is required:
\* ParseAccessToken refuses every refresh JWT handed out, and a password-change
\* endpoint called with one as its bearer token answers 401.
C32_RefreshIsNoAccessToken ==
    [][/\ \A tok \in issued : ~ParseAccessToken(tok, now).ok
       /\ \A tok \in issued :
             (\/ SendPasswordChangeOTPRequest("p2", tok, "111111")
              \/ ChangePasswordRequest("p2", tok, "pw1", "pw2", "111111"))
             => aresp'["p2"].http = 401]_vars

\* The claims of an access token other than iat and exp.
ClaimSet(access) ==
    [sub |-> access.sub, roles |-> access.roles, iss |-> access.iss,
     aud |-> access.aud]

\* C33: the access token of a grace-period Refresh carries the same sub,
\* roles, iss and aud as the access token Login or a rotation mints for the
\* same user and roles.
C33_GraceAccessSameClaims ==
    \A p \in Procs :
        (resp[p].status = "ok" /\ resp[p].kind = "G")
        => ClaimSet(resp[p].access)
           = ClaimSet(GenerateTokens(resp[p].access.sub, resp[p].access.roles,
                                     resp[p].child, now).AccessToken)

\* C34: the access token a successful Refresh returns carries the roles the
\* user has in the users table when that Refresh loads the user: Case G reads
\* them in the step that answers, Case N in the step that generates the pair
\* it later returns unchanged.
C34_RefreshUsesCurrentRoles ==
    [][\A p \in Procs :
          /\ (pc[p] = "grace" /\ pc'[p] = "done" /\ resp'[p].status = "ok")
             => resp'[p].access.roles = users[loc[p].existing.user_id].roles
          /\ (pc[p] = "rotate" /\ pc'[p] = "update")
             => loc'[p].pair.AccessToken.roles
                = users[loc[p].existing.user_id].roles
          /\ (pc[p] = "update" /\ pc'[p] = "done" /\ resp'[p].status = "ok")
             => resp'[p].access = loc[p].pair.AccessToken]_vars

\* Both a rotation and a grace-period Refresh have answered with roles that
\* differ from those of the access token the Login returned.
C34_Witness ==
    /\ loginResp.status = "ok"
    /\ \E p, q \in Procs :
          /\ resp[p].status = "ok" /\ resp[p].kind = "N"
          /\ resp[q].status = "ok" /\ resp[q].kind = "G"
          /\ resp[p].access.roles # loginResp.access.roles
          /\ resp[q].access.roles # loginResp.access.roles
          /\ resp[q].access.roles # resp[p].access.roles

\* C35: for every configured JWT_ACCESS_TTL (unset, valid or unparseable), the
\* expires_in of a successful Login or Refresh response equals exp - iat of
\* the access token of the same response.
C35_ExpiresInIsLifetime ==
    (codec.kind = "ttl" /\ codec.path \in {"login", "N", "G"})
    => codec.expiresIn = codec.access.exp - codec.access.iat

\* C36: every refresh JWT handed to a client (by Login, Case N or Case G)
\* expires no later than the refresh row its jti names.
C36_JwtExpiresWithRow ==
    \A tok \in issued :
        tok.jti \in DOMAIN inserted
        => tok.exp <= inserted[tok.jti].expires_at

\* The presented token fails the validation gate: it is expired, its jti
\* names no row, or the row belongs to another user than its subject.
GateFails(tok) ==
    \/ tok.exp < now
    \/ tok.jti \notin DOMAIN refreshStore
    \/ refreshStore[tok.jti].user_id # tok.sub

\* C37: a Refresh that fails the validation gate returns an error, issues no
\* tokens and leaves the refresh store unchanged.
C37_GateFailureHasNoEffect ==
    [][calls' = calls + 1
       => \A p \in Procs, tok \in issued :
             (RefreshBegin(p, tok) /\ GateFails(tok))
             => /\ pc'[p] = "done"
                /\ resp'[p].status \in {"invalid refresh token",
                                        "invalid or unknown refresh token",
                                        "user mismatch"}
                /\ resp'[p].access = NoAccess
                /\ resp'[p].refresh = NoToken
                /\ issued' = issued
                /\ refreshStore' = refreshStore
                /\ inserted' = inserted]_vars

\* A Refresh with an unexpired token whose row is gone was refused while
\* the store holds other rows.
C37_Witness ==
    \E p \in Procs :
        /\ resp[p].status = "invalid or unknown refresh token"
        /\ pc[p] = "done"
        /\ refreshStore # <<>>
        /\ \E tok \in issued : tok.jti = resp[p].parent /\ tok.exp >= now

\* C38: a successful Login inserts exactly one new refresh row, owned by the
\* user who logs in and neither replaced nor revoked, and changes no existing
\* row: a token that passed the validation gate before still passes it.
C38_LoginInsertsOneRow ==
    [][(loginResp'.status = "ok" /\ nextId' = nextId + 1)
       => \A e \in Emails, pw \in Passwords :
             Login(e, pw, "111111")
             => /\ \E id \in DOMAIN refreshStore' \ DOMAIN refreshStore :
                      /\ DOMAIN refreshStore' = DOMAIN refreshStore \cup {id}
                      /\ refreshStore'[id].user_id \in GetByEmail(e)
                      /\ refreshStore'[id].replaced_at = NULL
                      /\ refreshStore'[id].replaced_by = NULL
                      /\ refreshStore'[id].revoked_at = NULL
                      /\ loginResp'.refresh.jti = id
                /\ \A r \in DOMAIN refreshStore :
                      refreshStore'[r] = refreshStore[r]
                /\ \A tok \in issued : GatePassed(tok) => GatePassed(tok)']_vars

\* ada logged in twice; the token of the first session was rotated after
\* the second login.
C38_Witness ==
    /\ loginResp.status = "ok"
    /\ loginResp.child \in DOMAIN refreshStore
    /\ \E r \in DOMAIN refreshStore, p \in Procs :
          /\ r # loginResp.child
          /\ inserted[r].parent = NULL
          /\ refreshStore[r].user_id = refreshStore[loginResp.child].user_id
          /\ resp[p].status = "ok" /\ resp[p].kind = "N" /\ resp[p].parent = r
          /\ refreshStore[r].replaced_at > refreshStore[loginResp.child].created_at
          /\ refreshStore[r].created_at < refreshStore[loginResp.child].created_at

\* C39: email_verified is monotonic: a user whose e-mail is verified stays
\* in the users table with a verified e-mail in every step, whatever runs
\* (login, refresh, password change, a second or a concurrent verify_code).
C39_VerifiedIsMonotonic ==
    [][\A u \in DOMAIN users :
          users[u].verified
          => (u \in DOMAIN users' /\ users'[u].verified)]_vars

\* Two overlapping verify_code requests of bob were both accepted, bob then
\* logged in, and his e-mail is verified.
C39_Witness ==
    /\ users["u2"].verified
    /\ \A p \in Procs :
          /\ apc[p] = "done"
          /\ aresp[p].op = "verify" /\ aresp[p].status = "ok"
          /\ aresp[p].userID = "u2"
    /\ loginResp.status = "ok"
    /\ loginResp.access.sub = "u2"

====
